---------------------------- MODULE Spec2Model ----------------------------
(***************************************************************************)
(* Model of interactive_routes_map.py: a Streamlit script that filters a   *)
(* table of routes, geocodes the cities of the filtered routes through     *)
(* memoized lookups, and draws the routes on a map.                        *)
(*                                                                         *)
(* One script run (main) is one action, except the geocoding loop of       *)
(* geocode_all_cities, which takes one step per city because every         *)
(* iteration may issue a network request whose outcome is not decided by   *)
(* the program.                                                            *)
(*                                                                         *)
(* Prices are floats in the source.  They are modelled in fixed point:     *)
(* avg_price counts units of 1/PriceScale, the slider values are whole     *)
(* numbers.  Latitudes and longitudes are modelled by their text.          *)
(***************************************************************************)
EXTENDS Integers, Sequences, FiniteSets, TLC

VARIABLES
    df,                    \* the loaded table: a sequence of rows
    price_range,           \* slider value <<lo, hi>>
    selected_from_cities,  \* multiselect value (as a set)
    selected_to_cities,    \* multiselect value (as a set)
    filtered_df,           \* filtered_df of the latest script run
    session_state,         \* st.session_state: keys "map_built", "coordinates"
    geocode_city_cache,    \* st.cache_data of geocode_city: city -> result
    geocode_all_cache,     \* st.cache_data of geocode_all_cities: df -> dict
    requests,              \* number of requests.get calls made per city
    last_lookup,           \* the call of geocode_city of the current iteration:
                           \* its argument, its result (lat, lon of line 44),
                           \* whether it sent a request and whether it slept
    pc,                    \* "idle" between runs, "resolving" inside line 160
    todo,                  \* cities the loop of line 43 has still to visit
    coordinates,           \* the local dict of geocode_all_cities
    shown                  \* what the latest script run put on the page

vars == <<df, price_range, selected_from_cities, selected_to_cities,
          filtered_df, session_state, geocode_city_cache, geocode_all_cache,
          requests, last_lookup, pc, todo, coordinates, shown>>

(***************************************************************************)
(* Bounds and data                                                         *)
(***************************************************************************)
MaxRoutes == 2

MaxSelected == 1

PriceScale == 2

Cities == {"Moscow", "Kazan", "Omsk"}

FilterCities == {"Moscow", "Kazan"}

\* 1.0, 1.5, 2.0, 2.5
Prices == {2, 3, 4, 5}

Row(i, f, t, p) == [idx |-> i, from_city |-> f, to_city |-> t, avg_price |-> p]

RowsOver(cs, ps, n) ==
    UNION {{s \in [1..k -> [from_city : cs, to_city : cs, avg_price : ps]] : TRUE}
             : k \in 1..n}

Indexed(s) == [i \in 1..Len(s) |-> Row(i, s[i].from_city, s[i].to_city, s[i].avg_price)]

FilterTables == {Indexed(s) : s \in RowsOver(FilterCities, Prices, MaxRoutes)}

RenderTables == {Indexed(s) : s \in RowsOver(Cities, {2}, MaxRoutes)}

\* The tables a session is run on: a chain over three cities at 1.0 and 2.0;
\* a route and its return at 1.0 and 1.5, and at 1.0 and 2.0; two routes
\* into one city at 1.0 and 2.5
SessionTables ==
    { <<Row(1, "Moscow", "Kazan", 2), Row(2, "Kazan", "Omsk", 4)>>,
      <<Row(1, "Moscow", "Kazan", 2), Row(2, "Kazan", "Moscow", 3)>>,
      <<Row(1, "Moscow", "Kazan", 2), Row(2, "Kazan", "Moscow", 4)>>,
      <<Row(1, "Moscow", "Kazan", 2), Row(2, "Omsk", "Kazan", 5)>> }

(***************************************************************************)
(* main, lines 117-149: the widgets and the filter                         *)
(***************************************************************************)
\* Python's int() of a float: truncation towards zero
IntOf(x) == IF x >= 0 THEN x \div PriceScale ELSE -((-x) \div PriceScale)

SeqRange(s) == {s[i] : i \in 1..Len(s)}

Column(d, name) == {r[name] : r \in SeqRange(d)}

SetMin(S) == CHOOSE x \in S : \A y \in S : x <= y

SetMax(S) == CHOOSE x \in S : \A y \in S : x >= y

min_price(d) == IntOf(SetMin(Column(d, "avg_price")))

max_price(d) == IntOf(SetMax(Column(d, "avg_price")))

SliderDefault(d) == <<min_price(d), max_price(d)>>

SliderValues(d) ==
    {<<lo, hi>> \in (min_price(d)..max_price(d)) \X (min_price(d)..max_price(d)) : lo <= hi}

cities(d) == Column(d, "from_city") \cup Column(d, "to_city")

\* Lines 141-142 with the upper bound exclusive
PriceInRange_Exclusive(row, pr) ==
    /\ row.avg_price >= pr[1] * PriceScale
    /\ row.avg_price < pr[2] * PriceScale

PriceInRange(row, pr) ==
    /\ row.avg_price >= pr[1] * PriceScale
    /\ row.avg_price <= pr[2] * PriceScale

ByPrice(d, pr) == SelectSeq(d, LAMBDA row : PriceInRange(row, pr))

ByFrom(d, sel) ==
    IF sel # {} THEN SelectSeq(d, LAMBDA row : row.from_city \in sel) ELSE d

ByTo(d, sel) ==
    IF sel # {} THEN SelectSeq(d, LAMBDA row : row.to_city \in sel) ELSE d

ApplyFilters(d, pr, sf, st) == ByTo(ByFrom(ByPrice(d, pr), sf), st)


(***************************************************************************)
(* geocode_city, lines 13-33, and its st.cache_data memo                   *)
(***************************************************************************)
\* What requests.get can come back with: a 200 answer with a usable first
\* element, a non-200 answer, a 200 answer with an empty list, or an
\* exception raised inside the try block.  (The query is restricted to
\* Russia, so a latitude or longitude of 0.0 is not among the answers.)
Responses == {"ok", "non200", "empty", "error"}

LatLonNone == <<"None", "None">>

\* The value geocode_city returns for a response (lines 26-33)
ResultOf(resp) ==
    CASE resp = "ok"      -> <<"55.75", "37.61">>
      [] OTHER            -> LatLonNone

\* Whether time.sleep(0.1) of line 30 is reached for a response
SleepsAfter(resp) == resp \in {"non200", "empty"}

\* Lines 13 and 35 without the memo
CacheHit_Never(cache, key) == FALSE

\* st.cache_data (line 13): a call with a memoized argument does not run the body
CacheHit(cache, key) == key \in DOMAIN cache

\* Python truthiness of a latitude or longitude (line 45)
TruthyNumber(x) == x \notin {"None", "0.0"}

\* Lines 44-46: one iteration of the loop of geocode_all_cities
AddCity(coords, city, latlon) ==
    IF TruthyNumber(latlon[1]) /\ TruthyNumber(latlon[2])
    THEN coords @@ (city :> latlon)
    ELSE coords

(***************************************************************************)
(* create_map, lines 52-103                                                *)
(***************************************************************************)
\* dict.get of a missing key gives None, which is falsy like the empty tuple
NoCoords == <<>>

DictGet(d, k) == IF k \in DOMAIN d THEN d[k] ELSE NoCoords

\* Line 65 testing the origin alone
Drawable_FromOnly(from_coords, to_coords) == from_coords # NoCoords

\* Line 65: both operands are truthy
Drawable(from_coords, to_coords) == from_coords # NoCoords /\ to_coords # NoCoords

EmptyMap == [lines |-> <<>>, markers |-> <<>>, added_cities |-> {}]

\* Lines 81-90
MarkFrom(m, row, from_coords) ==
    IF row.from_city \notin m.added_cities
    THEN [m EXCEPT !.markers = Append(@, [city |-> row.from_city, color |-> "green",
                                           location |-> from_coords]),
                   !.added_cities = @ \cup {row.from_city}]
    ELSE m

\* Lines 92-101 without the test of added_cities
MarkTo_Unchecked(m, row, to_coords) ==
    [m EXCEPT !.markers = Append(@, [city |-> row.to_city, color |-> "red",
                                      location |-> to_coords]),
              !.added_cities = @ \cup {row.to_city}]

\* Lines 92-101
MarkTo(m, row, to_coords) ==
    IF row.to_city \notin m.added_cities
    THEN [m EXCEPT !.markers = Append(@, [city |-> row.to_city, color |-> "red",
                                           location |-> to_coords]),
                   !.added_cities = @ \cup {row.to_city}]
    ELSE m

\* Lines 62-101: the body of the loop over the rows
DrawRow(m, row, coords) ==
    LET from_coords == DictGet(coords, row.from_city)
        to_coords   == DictGet(coords, row.to_city)
    IN  IF Drawable(from_coords, to_coords)
        THEN LET m1 == [m EXCEPT !.lines = Append(@, [idx |-> row.idx,
                                       locations |-> <<from_coords, to_coords>>])]
             IN  MarkTo(MarkFrom(m1, row, from_coords), row, to_coords)
        ELSE m

RECURSIVE DrawRows(_, _, _)
DrawRows(m, rows, coords) ==
    IF rows = <<>> THEN m
    ELSE DrawRows(DrawRow(m, Head(rows), coords), Tail(rows), coords)

create_map(rows, coords) == DrawRows(EmptyMap, rows, coords)


(***************************************************************************)
(* main, lines 151-174: the session                                        *)
(***************************************************************************)
Blank ==
    [warning |-> FALSE, rendered |-> FALSE, error |-> FALSE,
     build_button |-> FALSE, reset_button |-> FALSE,
     lines |-> <<>>, markers |-> <<>>]

\* Line 174
Warning == [Blank EXCEPT !.warning = TRUE]

\* Lines 157 and 168 reached, the map not drawn
Buttons == [Blank EXCEPT !.build_button = TRUE, !.reset_button = TRUE]

\* Line 153 without the test
HasRoutes_Always(f) == TRUE

\* Line 153
HasRoutes(f) == Len(f) > 0

\* Lines 154-155
InitSession(ss) ==
    IF "map_built" \notin DOMAIN ss THEN ss @@ ("map_built" :> FALSE) ELSE ss

\* Line 157, right operand: the map was built in an earlier run
MapBuilt(ss) == ss["map_built"]

\* Line 158 without the test
NeedsGeocoding_Always(ss) == TRUE

\* Line 158
NeedsGeocoding(ss) == ~ss["map_built"]

\* Lines 161-162 without line 161
StoreBuild_FlagOnly(ss, coords) == ("map_built" :> TRUE) @@ ss

\* Lines 161-162
StoreBuild(ss, coords) ==
    ("map_built" :> TRUE) @@ ("coordinates" :> coords) @@ ss

\* Lines 169-171 without the del of line 171
ResetState_KeepCoordinates(ss) == ("map_built" :> FALSE) @@ ss

\* Lines 169-171
ResetState(ss) ==
    LET ss1 == ("map_built" :> FALSE) @@ ss
    IN  [k \in DOMAIN ss1 \ {"coordinates"} |-> ss1[k]]

\* Lines 164-166, then line 168 with the reset button not pressed.  Reading a
\* missing session_state.coordinates raises, which ends the run at line 165.
RenderView(ss, f) ==
    IF "coordinates" \in DOMAIN ss
    THEN LET m == create_map(f, ss["coordinates"])
         IN  [Buttons EXCEPT !.rendered = TRUE, !.lines = m.lines,
                             !.markers = m.markers]
    ELSE [Blank EXCEPT !.error = TRUE, !.build_button = TRUE]

\* Lines 151-174 of a run in which no button is pressed
Pass(ss, f) ==
    IF HasRoutes(f)
    THEN LET ss0 == InitSession(ss)
         IN  IF MapBuilt(ss0)
             THEN [ss |-> ss0, shown |-> RenderView(ss0, f)]
             ELSE [ss |-> ss0, shown |-> Buttons]
    ELSE [ss |-> ss, shown |-> Warning]

NoLookup == [city |-> "", requested |-> FALSE, slept |-> FALSE, result |-> LatLonNone]

Selections(d) == {S \in SUBSET cities(d) : Cardinality(S) <= MaxSelected}

InitWith(tables) ==
    /\ df \in tables
    /\ price_range = SliderDefault(df)
    /\ selected_from_cities = {}
    /\ selected_to_cities = {}
    /\ filtered_df = <<>>
    /\ session_state = <<>>
    /\ geocode_city_cache = <<>>
    /\ geocode_all_cache = <<>>
    /\ requests = [c \in Cities |-> 0]
    /\ last_lookup = NoLookup
    /\ pc = "idle"
    /\ todo = {}
    /\ coordinates = <<>>
    /\ shown = Blank

Init == InitWith(SessionTables)

\* A run of main with the widgets at pr, sf, st and no button pressed
ScriptRun(pr, sf, st) ==
    LET f == ApplyFilters(df, pr, sf, st)
        r == Pass(session_state, f)
    IN  /\ pc = "idle"
        /\ price_range' = pr
        /\ selected_from_cities' = sf
        /\ selected_to_cities' = st
        /\ filtered_df' = f
        /\ session_state' = r.ss
        /\ shown' = r.shown
        /\ UNCHANGED <<df, geocode_city_cache, geocode_all_cache, requests,
                       last_lookup, pc, todo, coordinates>>

\* The page is loaded, or the script re-runs with no widget changed
Run == ScriptRun(price_range, selected_from_cities, selected_to_cities)

\* Lines 119-124
ChangePrice ==
    /\ shown # Blank
    /\ \E pr \in SliderValues(df) \ {price_range} :
          ScriptRun(pr, selected_from_cities, selected_to_cities)

\* Lines 128-132
ChangeFrom ==
    /\ shown # Blank
    /\ \E sf \in Selections(df) \ {selected_from_cities} :
          ScriptRun(price_range, sf, selected_to_cities)

\* Lines 134-138
ChangeTo ==
    /\ shown # Blank
    /\ \E st \in Selections(df) \ {selected_to_cities} :
          ScriptRun(price_range, selected_from_cities, st)

\* Line 157 with the build button pressed; the call of line 160 is entered
\* when the map is not built, and answered from the memo of
\* geocode_all_cities when this filtered_df was geocoded before.
PressBuild ==
    LET f   == ApplyFilters(df, price_range, selected_from_cities, selected_to_cities)
        ss0 == InitSession(session_state)
        hit == CacheHit(geocode_all_cache, f)
    IN  /\ pc = "idle"
        /\ shown.build_button
        /\ filtered_df' = f
        /\ IF ~HasRoutes(f)
           THEN /\ shown' = Warning
                /\ UNCHANGED <<session_state, pc, todo, coordinates>>
           ELSE IF NeedsGeocoding(ss0)
           THEN /\ session_state' = ss0
                /\ pc' = "resolving"
                /\ todo' = IF hit THEN {} ELSE cities(f)
                /\ coordinates' = IF hit THEN geocode_all_cache[f] ELSE <<>>
                /\ shown' = Blank
           ELSE /\ session_state' = ss0
                /\ shown' = RenderView(ss0, f)
                /\ UNCHANGED <<pc, todo, coordinates>>
        /\ UNCHANGED <<df, price_range, selected_from_cities, selected_to_cities,
                       geocode_city_cache, geocode_all_cache, requests, last_lookup>>

\* Lines 43-47: one iteration, with the call of geocode_city (lines 14-33)
GeocodeCity ==
    /\ pc = "resolving"
    /\ \E city \in todo :
          /\ IF CacheHit(geocode_city_cache, city)
             THEN /\ last_lookup' = [city |-> city, requested |-> FALSE, slept |-> FALSE,
                                     result |-> geocode_city_cache[city]]
                  /\ UNCHANGED <<geocode_city_cache, requests>>
             ELSE \E resp \in Responses :
                  /\ last_lookup' = [city |-> city, requested |-> TRUE,
                                     slept |-> SleepsAfter(resp), result |-> ResultOf(resp)]
                  /\ geocode_city_cache' = (city :> ResultOf(resp)) @@ geocode_city_cache
                  /\ requests' = [requests EXCEPT ![city] = @ + 1]
          /\ coordinates' = AddCity(coordinates, city, last_lookup'.result)
          /\ todo' = todo \ {city}
    /\ UNCHANGED <<df, price_range, selected_from_cities, selected_to_cities,
                   filtered_df, session_state, geocode_all_cache, pc, shown>>

\* Line 50 (the dict is returned and memoized), then lines 161-166
FinishBuild ==
    /\ pc = "resolving"
    /\ todo = {}
    /\ geocode_all_cache' = (filtered_df :> coordinates) @@ geocode_all_cache
    /\ session_state' = StoreBuild(session_state, coordinates)
    /\ shown' = RenderView(session_state', filtered_df)
    /\ pc' = "idle"
    /\ coordinates' = <<>>
    /\ last_lookup' = NoLookup
    /\ UNCHANGED <<df, price_range, selected_from_cities, selected_to_cities,
                   filtered_df, geocode_city_cache, requests, todo>>

\* A run with the reset button pressed: lines 151-167 as in any run, lines
\* 168-171, and the run that st.rerun() of line 172 starts
PressReset ==
    LET f     == ApplyFilters(df, price_range, selected_from_cities, selected_to_cities)
        first == Pass(session_state, f)
        again == Pass(ResetState(first.ss), f)
    IN  /\ pc = "idle"
        /\ shown.reset_button
        /\ filtered_df' = f
        /\ IF first.shown.reset_button
           THEN session_state' = again.ss /\ shown' = again.shown
           ELSE session_state' = first.ss /\ shown' = first.shown
        /\ UNCHANGED <<df, price_range, selected_from_cities, selected_to_cities,
                       geocode_city_cache, geocode_all_cache, requests, last_lookup,
                       pc, todo, coordinates>>

Next ==
    \/ Run
    \/ ChangePrice
    \/ ChangeFrom
    \/ ChangeTo
    \/ PressBuild
    \/ GeocodeCity
    \/ FinishBuild
    \/ PressReset

Spec == Init /\ [][Next]_vars


(***************************************************************************)
(* The filter alone: every small table over two cities, the widgets moved  *)
(* freely, no map built                                                    *)
(***************************************************************************)
InitFilter == InitWith(FilterTables)

NextFilter ==
    \/ Run
    \/ ChangePrice
    \/ ChangeFrom
    \/ ChangeTo

SpecFilter == InitFilter /\ [][NextFilter]_vars

(***************************************************************************)
(* create_map alone: every small table over three cities at one price, in  *)
(* a session whose map was built at the default filter with any outcome of *)
(* the lookups                                                             *)
(***************************************************************************)
Resolved == <<"55.75", "37.61">>

InitRender ==
    /\ df \in RenderTables
    /\ price_range = SliderDefault(df)
    /\ selected_from_cities = {}
    /\ selected_to_cities = {}
    /\ filtered_df = <<>>
    /\ \E S \in SUBSET cities(df) :
          /\ geocode_city_cache =
                [c \in cities(df) |-> IF c \in S THEN Resolved ELSE LatLonNone]
          /\ geocode_all_cache = (df :> [c \in S |-> Resolved])
          /\ session_state = StoreBuild(<<>>, [c \in S |-> Resolved])
    /\ requests = [c \in Cities |-> IF c \in cities(df) THEN 1 ELSE 0]
    /\ last_lookup = NoLookup
    /\ pc = "idle"
    /\ todo = {}
    /\ coordinates = <<>>
    /\ shown = Blank

NextRender ==
    \/ Run
    \/ ChangeFrom
    \/ ChangeTo

SpecRender == InitRender /\ [][NextRender]_vars


(***************************************************************************)
(* Properties                                                              *)
(***************************************************************************)
Built == "map_built" \in DOMAIN session_state /\ session_state["map_built"]

HasCoordinates == "coordinates" \in DOMAIN session_state

ScriptHasRun == shown # Blank

\* The filter as section 4.3 of the specification states it
Kept(row) ==
    /\ price_range[1] * PriceScale <= row.avg_price
    /\ row.avg_price <= price_range[2] * PriceScale
    /\ (selected_from_cities = {} \/ row.from_city \in selected_from_cities)
    /\ (selected_to_cities = {} \/ row.to_city \in selected_to_cities)

\* C1: after a run of the script, a row of the table is in filtered_df if
\* and only if price_min <= avg_price <= price_max (both inclusive) and the
\* origin selection is empty or holds its origin and the destination
\* selection is empty or holds its destination; the kept rows stand in the
\* order of the table.
C1_FilterContract ==
    ScriptHasRun =>
        /\ \A i \in 1..Len(df) : (df[i] \in SeqRange(filtered_df)) <=> Kept(df[i])
        /\ SeqRange(filtered_df) \subseteq SeqRange(df)
        /\ \A j, k \in 1..Len(filtered_df) :
              j < k => filtered_df[j].idx < filtered_df[k].idx

\* A run that kept a row whose price equals the upper bound, dropped another
\* row, and had an origin selected
C1_Witness ==
    /\ ScriptHasRun
    /\ selected_from_cities # {}
    /\ Len(filtered_df) >= 1
    /\ Len(filtered_df) < Len(df)
    /\ \E r \in SeqRange(filtered_df) : r.avg_price = price_range[2] * PriceScale

\* C9: with the slider at its default range and nothing selected, the
\* filter keeps every row of the table.
C9_DefaultKeepsAll ==
    ( /\ ScriptHasRun
      /\ price_range = SliderDefault(df)
      /\ selected_from_cities = {}
      /\ selected_to_cities = {} ) => filtered_df = df

LineIdx == {shown.lines[i].idx : i \in 1..Len(shown.lines)}

BothResolved(row) ==
    /\ row.from_city \in DOMAIN session_state["coordinates"]
    /\ row.to_city \in DOMAIN session_state["coordinates"]

\* C2: in a rendered map a row of filtered_df has a connector if and only
\* if both its cities are keys of the coordinate mapping, and no row has
\* more than one connector; so a row with an unresolved city has none and
\* takes none from the other rows.
C2_ConnectorIffResolved ==
    shown.rendered =>
        /\ \A i \in 1..Len(filtered_df) :
              (filtered_df[i].idx \in LineIdx) <=> BothResolved(filtered_df[i])
        /\ Cardinality(LineIdx) = Len(shown.lines)

\* A map in which the first row has an unresolved city and a later row is drawn
C2_Witness ==
    /\ shown.rendered
    /\ Len(filtered_df) >= 2
    /\ ~BothResolved(filtered_df[1])
    /\ Len(shown.lines) >= 1

MarkerIdx == 1..Len(shown.markers)

AtMostOneMarker ==
    \A i, j \in MarkerIdx : shown.markers[i].city = shown.markers[j].city => i = j

\* The colour of the role in which city first occurs in rows
FirstRoleColor(city, rows) ==
    LET i == CHOOSE i \in 1..Len(rows) :
                /\ city \in {rows[i].from_city, rows[i].to_city}
                /\ \A k \in 1..(i - 1) : city \notin {rows[k].from_city, rows[k].to_city}
    IN  IF rows[i].from_city = city THEN "green" ELSE "red"

DrawnRows == SelectSeq(filtered_df, BothResolved)

\* C3 as stated: at most one marker per city, and the marker has the colour
\* of the role in which the city first occurs in filtered_df.
C3_FirstRoleInFiltered ==
    shown.rendered =>
        /\ AtMostOneMarker
        /\ \A i \in MarkerIdx :
              shown.markers[i].color =
                  FirstRoleColor(shown.markers[i].city, filtered_df)

\* C3 amended: at most one marker per city; the marked cities are the
\* cities of the rows that are drawn (both cities resolved), and a marker
\* has the colour of the role in which its city first occurs among the drawn
\* rows; the single row Moscow -> Kazan with both cities resolved gives one
\* connector, Moscow green and Kazan red.
C3_FirstRoleInDrawn ==
    shown.rendered =>
        /\ AtMostOneMarker
        /\ {shown.markers[i].city : i \in MarkerIdx} = cities(DrawnRows)
        /\ \A i \in MarkerIdx :
              shown.markers[i].color =
                  FirstRoleColor(shown.markers[i].city, DrawnRows)
        /\ ( /\ Len(filtered_df) = 1
             /\ filtered_df[1].from_city = "Moscow"
             /\ filtered_df[1].to_city = "Kazan"
             /\ BothResolved(filtered_df[1]) )
           => /\ Len(shown.lines) = 1
              /\ [i \in MarkerIdx |-> <<shown.markers[i].city, shown.markers[i].color>>]
                    = << <<"Moscow", "green">>, <<"Kazan", "red">> >>

\* A map in which a city marked green is the destination of a later drawn row
C3_Witness ==
    /\ shown.rendered
    /\ Len(DrawnRows) >= 2
    /\ \E i \in MarkerIdx :
          /\ shown.markers[i].color = "green"
          /\ shown.markers[i].city = DrawnRows[2].to_city


\* What geocode_all_cities yields for rows, given the memo of geocode_city
ResolvedCoordinates(rows, cache) ==
    [c \in {x \in cities(rows) : x \in DOMAIN cache /\ cache[x] # LatLonNone}
        |-> cache[c]]

\* C4: from a session whose map is built, every step other than a reset
\* leaves st.session_state as it is (flag and coordinates), sends no request
\* and starts no geocoding, and a map it draws is drawn from the coordinates
\* stored at build time; hence only a reset leaves Built.
C4_BuiltIsStable ==
    [][ (Built /\ ~PressReset) =>
            /\ session_state' = session_state
            /\ pc' = "idle"
            /\ requests' = requests
            /\ geocode_city_cache' = geocode_city_cache
            /\ geocode_all_cache' = geocode_all_cache
            /\ shown'.rendered => shown' = RenderView(session_state, filtered_df')
      ]_vars

\* A built session that draws a filtered_df it never geocoded: the filter
\* was changed after the build
C4_Witness ==
    /\ Built
    /\ shown.rendered
    /\ filtered_df \notin DOMAIN geocode_all_cache
    /\ ~(cities(filtered_df) \subseteq DOMAIN geocode_city_cache)

\* C5: a reset leaves map_built = False, no coordinates in the session and
\* no map on the page; a press of the build button while the map is not
\* built enters the geocoding of line 160; and the coordinates stored when
\* it returns are those of the cities of the current filtered_df.
C5_ResetForcesResolution ==
    [][ /\ PressReset =>
              /\ ~Built' /\ ~HasCoordinates' /\ shown' = Buttons
        /\ (PressBuild /\ ~Built) => pc' = "resolving"
        /\ FinishBuild =>
              /\ Built'
              /\ HasCoordinates'
              /\ session_state'["coordinates"] =
                    ResolvedCoordinates(filtered_df, geocode_city_cache)
      ]_vars

\* A session built a second time, after a reset, for another filtered_df
C5_Witness ==
    /\ Built
    /\ pc = "idle"
    /\ Cardinality(DOMAIN geocode_all_cache) >= 2
    /\ HasCoordinates
    /\ session_state["coordinates"] = geocode_all_cache[filtered_df]

\* C6: no city is ever requested twice; a memoized outcome never changes;
\* a city enters the memo with exactly one request; and a lookup of a
\* memoized city returns the memoized outcome without a request.
C6_OneRequestPerCity ==
    [][ \A c \in Cities :
          /\ requests'[c] <= 1
          /\ c \in DOMAIN geocode_city_cache =>
                /\ c \in DOMAIN geocode_city_cache'
                /\ geocode_city_cache'[c] = geocode_city_cache[c]
                /\ requests'[c] = requests[c]
          /\ (c \notin DOMAIN geocode_city_cache /\ c \in DOMAIN geocode_city_cache') =>
                requests'[c] = requests[c] + 1
          /\ (GeocodeCity /\ last_lookup'.city = c /\ c \in DOMAIN geocode_city_cache) =>
                /\ ~last_lookup'.requested
                /\ last_lookup'.result = geocode_city_cache[c]
      ]_vars

\* A lookup answered from the memo with the unresolved outcome: no retry
C6_Witness ==
    /\ pc = "resolving"
    /\ last_lookup.city \in Cities
    /\ ~last_lookup.requested
    /\ last_lookup.result = LatLonNone
    /\ requests[last_lookup.city] = 1

\* C7: a call of geocode_city that sent a request slept before it returned.
C7_DelayAfterEveryRequest == last_lookup.requested => last_lookup.slept

\* C8: a run whose filtered_df is empty shows the warning and nothing else,
\* draws no map, starts no geocoding, sends no request, and leaves
\* st.session_state as it is.
C8_EmptyFilterOnlyWarns ==
    [][ (pc = "idle" /\ filtered_df' = <<>>) =>
            /\ shown' = Warning
            /\ session_state' = session_state
            /\ pc' = "idle"
            /\ requests' = requests
            /\ geocode_city_cache' = geocode_city_cache
            /\ geocode_all_cache' = geocode_all_cache
      ]_vars

\* A built session whose filter became empty
C8_Witness ==
    /\ Built
    /\ filtered_df = <<>>
    /\ shown = Warning

\* C10: whenever map_built is True the session holds coordinates, and no
\* run fails on reading them.
C10_BuiltHasCoordinates ==
    /\ Built => HasCoordinates
    /\ ~shown.error

\* A built session that holds an empty mapping (no city resolved) and drew
\* a map from it
C10_Witness ==
    /\ Built
    /\ shown.rendered
    /\ HasCoordinates
    /\ session_state["coordinates"] = <<>>

=============================================================================
